---- MODULE Spec2Model ----
(***************************************************************************)
(* Model of painel-insights-back: the cached Google Sheets fetch           *)
(* (services/sheets_service.py) and the request handlers and filter        *)
(* pipeline of app.py.                                                     *)
(*                                                                         *)
(* Text is a sequence of one-character strings, so that lower-casing,      *)
(* substring search, date parsing and date formatting are computed.        *)
(* A cell of a data frame is a record [k, s, n]:                           *)
(*   k = "str"  a Python str, text s                                       *)
(*   k = "none" Python None                                                *)
(*   k = "ts"   a pandas Timestamp at midnight, n = year*10000+month*100+day*)
(*   k = "nat"  pandas NaT                                                 *)
(*   k = "nan"  a missing value (float NaN)                                *)
(***************************************************************************)
EXTENDS Integers, Sequences, FiniteSets, TLC

VARIABLES
  upstream,   \* name of the workbook currently stored upstream
  cache,      \* the single lru_cache slot of fetch_all_data: [full, val]
  pc,         \* per worker thread: position in the handler
  req,        \* per worker thread: the request being served
  fp,         \* per worker thread: the FilterPayload built by get_insights
  res,        \* per worker thread: what fetch_all_data() gave: [src, val]
  resp,       \* per worker thread: the HTTP response
  pStage,     \* filter pipeline run: the stage reached
  pData,      \* filter pipeline run: the insight records given
  pReq,       \* filter pipeline run: the DataRequest given
  pIn,        \* filter pipeline run: the frame the last stage was given
  pDf         \* filter pipeline run: the frame the last stage returned

vars == <<upstream, cache, pc, req, fp, res, resp, pStage, pData, pReq, pIn, pDf>>

srvVars == <<upstream, cache, pc, req, fp, res, resp>>
pipeVars == <<pStage, pData, pReq, pIn, pDf>>

-----------------------------------------------------------------------------
(* Text *)

UpperChars == <<"A","B","C","D","E","F","G","H","I","J","K","L","M",
                "N","O","P","Q","R","S","T","U","V","W","X","Y","Z">>
LowerChars == <<"a","b","c","d","e","f","g","h","i","j","k","l","m",
                "n","o","p","q","r","s","t","u","v","w","x","y","z">>
DigitChars == <<"0","1","2","3","4","5","6","7","8","9">>

LowerChar(c) ==
  IF \E i \in 1..Len(UpperChars) : UpperChars[i] = c
  THEN LowerChars[CHOOSE i \in 1..Len(UpperChars) : UpperChars[i] = c]
  ELSE c

\* str.lower()
Lower(t) == [i \in 1..Len(t) |-> LowerChar(t[i])]

\* str.strip()
RECURSIVE LStrip(_)
LStrip(t) == IF t # <<>> /\ Head(t) = " " THEN LStrip(Tail(t)) ELSE t

RECURSIVE RStrip(_)
RStrip(t) ==
  IF t # <<>> /\ t[Len(t)] = " " THEN RStrip(SubSeq(t, 1, Len(t) - 1)) ELSE t

Strip(t) == RStrip(LStrip(t))

\* Python's  sub in text  on str
InText(sub, t) ==
  \E k \in 1..(Len(t) - Len(sub) + 1) :
    \A j \in 1..Len(sub) : t[k + j - 1] = sub[j]

\* re.search(pat, t) for patterns made of literal characters and "." (any
\* character): pandas' Series.str.contains treats its argument as a regular
\* expression by default.
RegexSearch(pat, t) ==
  \E k \in 1..(Len(t) - Len(pat) + 1) :
    \A j \in 1..Len(pat) : pat[j] = "." \/ t[k + j - 1] = pat[j]

IsDigit(c) == \E i \in 1..10 : DigitChars[i] = c
DigitVal(c) == (CHOOSE i \in 1..10 : DigitChars[i] = c) - 1
AllDigits(t) == \A i \in 1..Len(t) : IsDigit(t[i])

RECURSIVE ToInt(_)
ToInt(t) == IF t = <<>> THEN 0
            ELSE 10 * ToInt(SubSeq(t, 1, Len(t) - 1)) + DigitVal(t[Len(t)])

Pad2(n) == <<DigitChars[((n \div 10) % 10) + 1], DigitChars[(n % 10) + 1]>>
Pad4(n) == Pad2(n \div 100) \o Pad2(n % 100)

\* text.split(sep) for a one-character separator
RECURSIVE SplitOn(_, _)
SplitOn(t, sep) ==
  IF \E i \in 1..Len(t) : t[i] = sep
  THEN LET i == CHOOSE i \in 1..Len(t) :
                  t[i] = sep /\ \A j \in 1..(i - 1) : t[j] # sep
       IN <<SubSeq(t, 1, i - 1)>> \o SplitOn(SubSeq(t, i + 1, Len(t)), sep)
  ELSE <<t>>

-----------------------------------------------------------------------------
(* Cells and dates *)

StrCell(t) == [k |-> "str", s |-> t, n |-> 0]
NoneCell == [k |-> "none", s |-> <<>>, n |-> 0]
NaT == [k |-> "nat", s |-> <<>>, n |-> 0]
NaNCell == [k |-> "nan", s |-> <<>>, n |-> 0]
Timestamp(y, m, d) == [k |-> "ts", s |-> <<>>, n |-> y * 10000 + m * 100 + d]

YearOf(n) == n \div 10000
MonthOf(n) == (n \div 100) % 100
DayOf(n) == n % 100

IsLeap(y) == y % 4 = 0 /\ (y % 100 # 0 \/ y % 400 = 0)
DaysInMonth(y, m) ==
  IF m = 2 THEN (IF IsLeap(y) THEN 29 ELSE 28)
  ELSE IF m \in {4, 6, 9, 11} THEN 30 ELSE 31

ValidDate(y, m, d) == m \in 1..12 /\ d >= 1 /\ d <= DaysInMonth(y, m) /\ y >= 1

\* pd.to_datetime(text, format='%d/%m/%Y', errors='coerce') on one value
ParseDMY(t) ==
  LET p == SplitOn(t, "/") IN
  IF /\ Len(p) = 3
     /\ Len(p[1]) \in 1..2 /\ Len(p[2]) \in 1..2 /\ Len(p[3]) = 4
     /\ AllDigits(p[1]) /\ AllDigits(p[2]) /\ AllDigits(p[3])
     /\ ValidDate(ToInt(p[3]), ToInt(p[2]), ToInt(p[1]))
  THEN Timestamp(ToInt(p[3]), ToInt(p[2]), ToInt(p[1]))
  ELSE NaT

\* pd.to_datetime(text, errors='coerce') on a bound given as YYYY-MM-DD;
\* any text that is not such a calendar date is coerced to NaT
ParseBound(t) ==
  LET p == SplitOn(t, "-") IN
  IF /\ Len(p) = 3
     /\ Len(p[1]) = 4 /\ Len(p[2]) \in 1..2 /\ Len(p[3]) \in 1..2
     /\ AllDigits(p[1]) /\ AllDigits(p[2]) /\ AllDigits(p[3])
     /\ ValidDate(ToInt(p[1]), ToInt(p[2]), ToInt(p[3]))
  THEN Timestamp(ToInt(p[1]), ToInt(p[2]), ToInt(p[3]))
  ELSE NaT

\* Series.dt.strftime('%d-%m-%Y') on one value; NaT gives a missing value
Strftime(c) ==
  IF c.k = "ts"
  THEN StrCell(Pad2(DayOf(c.n)) \o <<"-">> \o Pad2(MonthOf(c.n)) \o <<"-">>
               \o Pad4(YearOf(c.n)))
  ELSE NoneCell

\* str(value), as Series.astype(str) computes it for each cell of a row
AsStr(c) ==
  CASE c.k = "str" -> c.s
    [] c.k = "none" -> <<"N", "o", "n", "e">>
    [] c.k = "nat" -> <<"N", "a", "T">>
    [] c.k = "nan" -> <<"n", "a", "n">>
    [] c.k = "ts" -> Pad4(YearOf(c.n)) \o <<"-">> \o Pad2(MonthOf(c.n)) \o <<"-">>
                     \o Pad2(DayOf(c.n)) \o <<" ", "0", "0", ":", "0", "0", ":", "0", "0">>

-----------------------------------------------------------------------------
(* app.py: constants *)

REQUIRED_COLS == <<"Marca", "Plataforma", "Insight", "Data do report/status",
                   "Mês", "Tipo de insight">>
DATE_COL == "Data do report/status"
DATE_COLS == <<"Data do report/status", "LTV">>
SEARCHABLE_COLS == <<"Marca", "Plataforma", "Insight", "Tipo de insight", "Mês", "LTV">>
CanonKeys == <<"brand", "platform", "insight_type", "month">>
CANON_TO_COL ==
  [key \in {"brand", "platform", "insight_type", "month"} |->
     CASE key = "brand" -> "Marca"
       [] key = "platform" -> "Plataforma"
       [] key = "insight_type" -> "Tipo de insight"
       [] key = "month" -> "Mês"]

Range(seq) == {seq[i] : i \in 1..Len(seq)}
Reverse(seq) == [i \in 1..Len(seq) |-> seq[Len(seq) + 1 - i]]

-----------------------------------------------------------------------------
(* app.py: data frames.  A frame is [cols, rows]: the set of column names   *)
(* and the sequence of rows, each a function from the columns to cells.     *)

\* pd.DataFrame(data) for a list of dicts of str values: a key missing from
\* one record gives a missing value in that row
DataFrame(data) ==
  LET cols == UNION {DOMAIN data[i] : i \in 1..Len(data)} IN
  [cols |-> cols,
   rows |-> [i \in 1..Len(data) |->
              [c \in cols |-> IF c \in DOMAIN data[i] THEN StrCell(data[i][c])
                              ELSE NaNCell]]]

\* pd.DataFrame(columns=REQUIRED_COLS)
EmptyFrame == [cols |-> Range(REQUIRED_COLS), rows |-> <<>>]

\* _ensure_required_cols
EnsureRequiredCols(df) ==
  LET cols == df.cols \cup Range(REQUIRED_COLS) IN
  [cols |-> cols,
   rows |-> [i \in 1..Len(df.rows) |->
              [c \in cols |-> IF c \in df.cols THEN df.rows[i][c] ELSE NoneCell]]]

\* pd.to_datetime(column, format=DATE_INPUT_FMT, errors='coerce') on one cell
ToDatetime(c) ==
  CASE c.k = "str" -> ParseDMY(c.s)
    [] c.k = "ts" -> c
    [] OTHER -> NaT

\* _parse_sheet_dates
ParseSheetDates(df) ==
  [cols |-> df.cols,
   rows |-> [i \in 1..Len(df.rows) |->
              [c \in df.cols |->
                 IF c \in Range(DATE_COLS) THEN ToDatetime(df.rows[i][c])
                 ELSE df.rows[i][c]]]]

\* Series.isin(values) on one cell
IsIn(c, values) == c.k = "str" /\ \E j \in 1..Len(values) : values[j] = c.s

\* _apply_canonical_filters, the loop over CANON_TO_COL from position i on.
\* f maps each canonical key to [some, vals]: None, or a list of str.
RECURSIVE FilterFrom(_, _, _)
FilterFrom(df, f, i) ==
  IF i > Len(CanonKeys) THEN df
  ELSE LET values == f[CanonKeys[i]]
           colname == CANON_TO_COL[CanonKeys[i]]
           Keep(r) == IsIn(r[colname], values.vals)
       IN IF values.some /\ values.vals # <<>> /\ colname \in df.cols
          THEN FilterFrom([cols |-> df.cols, rows |-> SelectSeq(df.rows, Keep)], f, i + 1)
          ELSE FilterFrom(df, f, i + 1)

\* _apply_canonical_filters; filters is [given, f] (Optional[FilterPayload])
ApplyCanonicalFilters(df, filters) ==
  IF ~filters.given THEN df ELSE FilterFrom(df, filters.f, 1)

\* the lambda of _apply_search on one row
SearchHit(r, cols, st) ==
  \E c \in cols : RegexSearch(st, Lower(AsStr(r[c])))

\* _apply_search; search_term is [some, s] (Optional[str])
ApplySearch(df, search_term) ==
  IF ~search_term.some \/ search_term.s = <<>> THEN df
  ELSE LET st == Lower(search_term.s)
           cols == Range(SEARCHABLE_COLS) \cap df.cols
           Keep(r) == SearchHit(r, cols, st)
       IN IF cols = {} THEN df
          ELSE [cols |-> df.cols, rows |-> SelectSeq(df.rows, Keep)]

\* KeepFrom with an exclusive start bound
KeepFromStrict(df, sdt) ==
  LET Keep(r) == r[DATE_COL].k = "ts" /\ r[DATE_COL].n > sdt.n
  IN [cols |-> df.cols, rows |-> SelectSeq(df.rows, Keep)]

\* out[out[DATE_COL] >= sdt]: a comparison with NaT is False
KeepFrom(df, sdt) ==
  LET Keep(r) == r[DATE_COL].k = "ts" /\ r[DATE_COL].n >= sdt.n
  IN [cols |-> df.cols, rows |-> SelectSeq(df.rows, Keep)]

\* out[out[DATE_COL] <= edt]
KeepUntil(df, edt) ==
  LET Keep(r) == r[DATE_COL].k = "ts" /\ r[DATE_COL].n <= edt.n
  IN [cols |-> df.cols, rows |-> SelectSeq(df.rows, Keep)]

\* _apply_date_range; start_date and end_date are [some, s] (Optional[str])
ApplyDateRange(df, start_date, end_date) ==
  IF DATE_COL \notin df.cols THEN df
  ELSE LET sdt == ParseBound(start_date.s)
           edt == ParseBound(end_date.s)
           out1 == IF start_date.some /\ start_date.s # <<>> /\ sdt.k = "ts"
                   THEN KeepFrom(df, sdt) ELSE df
       IN IF end_date.some /\ end_date.s # <<>> /\ edt.k = "ts"
          THEN KeepUntil(out1, edt) ELSE out1

\* a stable ascending argsort of keys[1..n], by insertion
RECURSIVE InsertIdx(_, _, _)
InsertIdx(sorted, i, keys) ==
  IF sorted = <<>> THEN <<i>>
  ELSE IF keys[i] < keys[Head(sorted)] THEN <<i>> \o sorted
  ELSE <<Head(sorted)>> \o InsertIdx(Tail(sorted), i, keys)

RECURSIVE ArgSort(_, _)
ArgSort(keys, n) ==
  IF n = 0 THEN <<>> ELSE InsertIdx(ArgSort(keys, n - 1), n, keys)

\* pandas' nargsort: the positions of the non-missing cells sorted by value
\* (reversed before and after the sort when descending), the positions of the
\* missing cells put first or last
NargSort(cells, ascending, na_position) ==
  LET idx == [i \in 1..Len(cells) |-> i]
      IsTs(i) == cells[i].k = "ts"
      IsNa(i) == cells[i].k # "ts"
      nonNan0 == SelectSeq(idx, IsTs)
      nanIdx == SelectSeq(idx, IsNa)
      nonNan == IF ascending THEN nonNan0 ELSE Reverse(nonNan0)
      keys == [j \in 1..Len(nonNan) |-> cells[nonNan[j]].n]
      perm == ArgSort(keys, Len(keys))
      sorted == [j \in 1..Len(perm) |-> nonNan[perm[j]]]
      indexer == IF ascending THEN sorted ELSE Reverse(sorted)
  IN IF na_position = "last" THEN indexer \o nanIdx ELSE nanIdx \o indexer

\* DataFrame.sort_values(by=[by], ascending=..., na_position=...)
SortValues(df, by, ascending, na_position) ==
  LET indexer == NargSort([i \in 1..Len(df.rows) |-> df.rows[i][by]],
                          ascending, na_position)
  IN [cols |-> df.cols, rows |-> [j \in 1..Len(indexer) |-> df.rows[indexer[j]]]]

\* SortByDate with the missing dates put first
SortByDateNaFirst(df) ==
  IF DATE_COL \in df.cols THEN SortValues(df, DATE_COL, FALSE, "first") ELSE df

\* the sort of _finalize_df
SortByDate(df) ==
  IF DATE_COL \in df.cols THEN SortValues(df, DATE_COL, FALSE, "last") ELSE df

\* the formatting of _finalize_df: date columns to OUTPUT_DATE_FMT text, and
\* df.where(pd.notna(df), None)
FormatDates(df) ==
  [cols |-> df.cols,
   rows |-> [i \in 1..Len(df.rows) |->
              [c \in df.cols |->
                 LET v == df.rows[i][c] IN
                 IF c \in Range(DATE_COLS) /\ v.k \in {"ts", "nat"} THEN Strftime(v)
                 ELSE IF v.k \in {"nat", "nan"} THEN NoneCell ELSE v]]]

\* _finalize_df
FinalizeDf(df) == FormatDates(SortByDate(df))

\* _filter_pipeline up to and including _parse_sheet_dates
Normalize(data) == ParseSheetDates(EnsureRequiredCols(DataFrame(data)))

\* _filter_pipeline; payload is a DataRequest [filters, search, start_date, end_date]
FilterPipeline(data, payload) ==
  IF data = <<>> THEN EmptyFrame
  ELSE FinalizeDf(
         ApplyDateRange(
           ApplySearch(
             ApplyCanonicalFilters(Normalize(data), payload.filters),
             payload.search),
           payload.start_date, payload.end_date))

-----------------------------------------------------------------------------
(* json.loads on the filters query parameter.  The text is a sequence of    *)
(* tokens [t, s]: t = "p" a punctuation mark, t = "s" a string literal with *)
(* content s, t = "w" a bare word: null, or unquoted text that is no JSON   *)
(* literal.  The grammar covered: null, a string, a list of strings, and an *)
(* object whose values are null, strings or lists of strings.               *)

Punct(c) == [t |-> "p", s |-> <<c>>]
Str(text) == [t |-> "s", s |-> text]
Word(text) == [t |-> "w", s |-> text]

JNull == [vk |-> "null", items |-> <<>>]
JStr(text) == [vk |-> "str", items |-> <<text>>]
JList(items) == [vk |-> "list", items |-> items]
ParseFail == [ok |-> FALSE, val |-> JNull, ents |-> <<>>, next |-> 0]

\* the items of a list, from token i on (first: right after the "[")
RECURSIVE ParseItems(_, _, _, _)
ParseItems(toks, i, acc, first) ==
  IF i > Len(toks) THEN ParseFail
  ELSE IF first /\ toks[i] = Punct("]")
  THEN [ok |-> TRUE, val |-> JList(acc), ents |-> <<>>, next |-> i + 1]
  ELSE IF toks[i].t = "s" /\ i + 1 <= Len(toks)
  THEN IF toks[i + 1] = Punct("]")
       THEN [ok |-> TRUE, val |-> JList(Append(acc, toks[i].s)), ents |-> <<>>,
             next |-> i + 2]
       ELSE IF toks[i + 1] = Punct(",")
       THEN ParseItems(toks, i + 2, Append(acc, toks[i].s), FALSE)
       ELSE ParseFail
  ELSE ParseFail

\* a value that is not an object, at token i
ParseValue(toks, i) ==
  IF i > Len(toks) THEN ParseFail
  ELSE IF toks[i].t = "s"
  THEN [ok |-> TRUE, val |-> JStr(toks[i].s), ents |-> <<>>, next |-> i + 1]
  ELSE IF toks[i] = Word(<<"n", "u", "l", "l">>)
  THEN [ok |-> TRUE, val |-> JNull, ents |-> <<>>, next |-> i + 1]
  ELSE IF toks[i] = Punct("[") THEN ParseItems(toks, i + 1, <<>>, TRUE)
  ELSE ParseFail

\* the members of an object, from token i on (first: right after the "{")
RECURSIVE ParseMembers(_, _, _, _)
ParseMembers(toks, i, ents, first) ==
  IF i > Len(toks) THEN ParseFail
  ELSE IF first /\ toks[i] = Punct("}")
  THEN [ok |-> TRUE, val |-> JNull, ents |-> ents, next |-> i + 1]
  ELSE IF toks[i].t = "s" /\ i + 1 <= Len(toks) /\ toks[i + 1] = Punct(":")
  THEN LET v == ParseValue(toks, i + 2)
           more == Append(ents, [key |-> toks[i].s, val |-> v.val])
       IN IF ~v.ok \/ v.next > Len(toks) THEN ParseFail
          ELSE IF toks[v.next] = Punct("}")
          THEN [ok |-> TRUE, val |-> JNull, ents |-> more, next |-> v.next + 1]
          ELSE IF toks[v.next] = Punct(",")
          THEN ParseMembers(toks, v.next + 1, more, FALSE)
          ELSE ParseFail
  ELSE ParseFail

\* json.loads(text): [err, kind, ents, val]; err is json.JSONDecodeError.
\* kind "obj" has the members ents (a later member with the same key wins),
\* the other kinds have the value val.
JsonLoads(toks) ==
  LET bad == [err |-> TRUE, kind |-> "none", ents |-> <<>>, val |-> JNull] IN
  IF toks = <<>> THEN bad
  ELSE IF toks[1] = Punct("{")
  THEN LET m == ParseMembers(toks, 2, <<>>, TRUE) IN
       IF m.ok /\ m.next = Len(toks) + 1
       THEN [err |-> FALSE, kind |-> "obj", ents |-> m.ents, val |-> JNull]
       ELSE bad
  ELSE LET v == ParseValue(toks, 1) IN
       IF v.ok /\ v.next = Len(toks) + 1
       THEN [err |-> FALSE, kind |-> v.val.vk, ents |-> <<>>, val |-> v.val]
       ELSE bad

\* the {} that get_insights uses when the parameter is absent or empty
EmptyObject == [err |-> FALSE, kind |-> "obj", ents |-> <<>>, val |-> JNull]

-----------------------------------------------------------------------------
(* app.py: get_insights, up to the call of fetch_all_data *)

\* the Python str of a filter key
TextOf(name) ==
  CASE name = "brand" -> <<"b", "r", "a", "n", "d">>
    [] name = "platform" -> <<"p", "l", "a", "t", "f", "o", "r", "m">>
    [] name = "insight_type" -> <<"i", "n", "s", "i", "g", "h", "t", "_", "t", "y", "p", "e">>
    [] name = "month" -> <<"m", "o", "n", "t", "h">>
    [] name = "Marca" -> <<"M", "a", "r", "c", "a">>
    [] name = "Plataforma" -> <<"P", "l", "a", "t", "a", "f", "o", "r", "m", "a">>
    [] name = "Tipo de insight" ->
         <<"T", "i", "p", "o", " ", "d", "e", " ", "i", "n", "s", "i", "g", "h", "t">>
    [] name = "Mês" -> <<"M", "ê", "s">>

\* key in parsed, for the parsed values on which  in  is defined
HasKey(parsed, key) ==
  CASE parsed.kind = "obj" -> \E i \in 1..Len(parsed.ents) : parsed.ents[i].key = key
    [] parsed.kind = "list" -> \E i \in 1..Len(parsed.val.items) : parsed.val.items[i] = key
    [] parsed.kind = "str" -> InText(key, parsed.val.items[1])
    [] OTHER -> FALSE

\* parsed[key] of a dict that holds key
GetKey(parsed, key) ==
  LET last == CHOOSE i \in 1..Len(parsed.ents) :
                /\ parsed.ents[i].key = key
                /\ \A j \in (i + 1)..Len(parsed.ents) : parsed.ents[j].key # key
  IN parsed.ents[last].val

\* bool(value)
Truthy(v) ==
  CASE v.vk = "null" -> FALSE
    [] v.vk = "str" -> v.items[1] # <<>>
    [] v.vk = "list" -> v.items # <<>>

PickNone == [raised |-> FALSE, some |-> FALSE, isList |-> TRUE, vals |-> <<>>]
PickRaise == [raised |-> TRUE, some |-> FALSE, isList |-> TRUE, vals |-> <<>>]
PickValue(v) == [raised |-> FALSE, some |-> TRUE, isList |-> v.vk = "list", vals |-> v.items]

\* Pick with the legacy column name tried before the canonical key
PickLegacyFirst(parsed, key_canon, legacy_col) ==
  IF parsed.kind = "null" THEN PickRaise
  ELSE IF HasKey(parsed, TextOf(legacy_col))
  THEN IF parsed.kind # "obj" THEN PickRaise
       ELSE IF Truthy(GetKey(parsed, TextOf(legacy_col)))
       THEN PickValue(JList(GetKey(parsed, TextOf(legacy_col)).items))
       ELSE IF HasKey(parsed, TextOf(key_canon))
               /\ Truthy(GetKey(parsed, TextOf(key_canon)))
       THEN PickValue(GetKey(parsed, TextOf(key_canon)))
       ELSE PickNone
  ELSE IF HasKey(parsed, TextOf(key_canon))
  THEN IF parsed.kind # "obj" THEN PickRaise
       ELSE IF Truthy(GetKey(parsed, TextOf(key_canon)))
       THEN PickValue(GetKey(parsed, TextOf(key_canon)))
       ELSE PickNone
  ELSE PickNone

\* get_insights.pick: [raised, some, isList, vals].  raised is the TypeError of
\* None (  in  ) or of a list or str subscripted by a str.
Pick(parsed, key_canon, legacy_col) ==
  IF parsed.kind = "null" THEN PickRaise
  ELSE IF HasKey(parsed, TextOf(key_canon))
  THEN IF parsed.kind # "obj" THEN PickRaise
       ELSE IF Truthy(GetKey(parsed, TextOf(key_canon)))
       THEN PickValue(GetKey(parsed, TextOf(key_canon)))
       ELSE IF HasKey(parsed, TextOf(legacy_col))
               /\ Truthy(GetKey(parsed, TextOf(legacy_col)))
       THEN PickValue(JList(GetKey(parsed, TextOf(legacy_col)).items))
       ELSE PickNone
  ELSE IF HasKey(parsed, TextOf(legacy_col))
  THEN IF parsed.kind # "obj" THEN PickRaise
       ELSE IF Truthy(GetKey(parsed, TextOf(legacy_col)))
       THEN PickValue(JList(GetKey(parsed, TextOf(legacy_col)).items))
       ELSE PickNone
  ELSE PickNone

NoFilters == [key \in Range(CanonKeys) |-> [some |-> FALSE, vals |-> <<>>]]

\* FilterPayload(brand=pick(...), ...): [raised, f].  raised is a TypeError of
\* pick, or pydantic's ValidationError for a field that is not a list of str.
BuildFilterPayload(parsed) ==
  LET picked == [key \in Range(CanonKeys) |-> Pick(parsed, key, CANON_TO_COL[key])] IN
  IF \E key \in Range(CanonKeys) :
       picked[key].raised \/ (picked[key].some /\ ~picked[key].isList)
  THEN [raised |-> TRUE, f |-> NoFilters]
  ELSE [raised |-> FALSE,
        f |-> [key \in Range(CanonKeys) |->
                 [some |-> picked[key].some, vals |-> picked[key].vals]]]

\* parsed = json.loads(filters) if filters else {}; filters is [some, toks]
LoadFilters(filters) ==
  IF filters.some /\ filters.toks # <<>> THEN JsonLoads(filters.toks) ELSE EmptyObject

\* ParseRequest with no handler for json.JSONDecodeError: the generic handler
\* answers 500
ParseRequestNoDecodeHandler(filters) ==
  LET parsed == LoadFilters(filters) IN
  IF parsed.err THEN [status |-> 500, f |-> NoFilters]
  ELSE LET b == BuildFilterPayload(parsed) IN
       IF b.raised THEN [status |-> 500, f |-> NoFilters]
       ELSE [status |-> 200, f |-> b.f]

\* get_insights before fetch_all_data: [status, f].  400 is the handler for
\* json.JSONDecodeError, 500 the handler for any other exception.
ParseRequest(filters) ==
  LET parsed == LoadFilters(filters) IN
  IF parsed.err THEN [status |-> 400, f |-> NoFilters]
  ELSE LET b == BuildFilterPayload(parsed) IN
       IF b.raised THEN [status |-> 500, f |-> NoFilters]
       ELSE [status |-> 200, f |-> b.f]

-----------------------------------------------------------------------------
(* services/sheets_service.py *)

\* the texts of sheets_service.py
BANCO == <<"B", "A", "N", "C", "O", "_", "I", "N", "S", "I", "G", "H", "T", "S">>
MARCAS == <<"M", "A", "R", "C", "A", "S">>
PLATAFORMAS == <<"P", "L", "A", "T", "A", "F", "O", "R", "M", "A", "S">>
INSIGHT == <<"i", "n", "s", "i", "g", "h", "t">>
MARCA == <<"m", "a", "r", "c", "a">>
PLATAFORM == <<"p", "l", "a", "t", "a", "f", "o", "r", "m">>
INSIGHTS_KEY == <<"i", "n", "s", "i", "g", "h", "t", "s">>
MARCAS_KEY == <<"m", "a", "r", "c", "a", "s">>
PLATAFORMAS_KEY == <<"p", "l", "a", "t", "a", "f", "o", "r", "m", "a", "s">>

WORKSHEETS_TO_FETCH == <<BANCO, MARCAS, PLATAFORMAS>>

\* the empty dict
EmptyData == [key \in {} |-> <<>>]

\* all_data[key] = data
Put(all_data, key, data) ==
  [x \in (DOMAIN all_data) \cup {key} |-> IF x = key THEN data ELSE all_data[x]]

\* the key under which fetch_all_data stores a worksheet that it could read
WorksheetKey(worksheet_name) ==
  LET key == Lower(Strip(worksheet_name)) IN
  IF InText(INSIGHT, key) THEN INSIGHTS_KEY
  ELSE IF InText(MARCA, key) THEN MARCAS_KEY
  ELSE IF InText(PLATAFORM, key) THEN PLATAFORMAS_KEY
  ELSE key

\* the loop of fetch_all_data over WORKSHEETS_TO_FETCH, from position i on.
\* workbook maps the names of the worksheets it has to their records; a
\* worksheet it lacks raises WorksheetNotFound, stored as [] under its name.
RECURSIVE ReadWorksheets(_, _, _)
ReadWorksheets(workbook, i, all_data) ==
  IF i > Len(WORKSHEETS_TO_FETCH) THEN all_data
  ELSE LET worksheet_name == WORKSHEETS_TO_FETCH[i] IN
       IF worksheet_name \in DOMAIN workbook
       THEN ReadWorksheets(workbook, i + 1,
              Put(all_data, WorksheetKey(worksheet_name), workbook[worksheet_name]))
       ELSE ReadWorksheets(workbook, i + 1, Put(all_data, worksheet_name, <<>>))

\* FetchBody with no handler for SpreadsheetNotFound: the exception leaves
\* fetch_all_data
FetchBodyNoCatch(outcome, workbook) ==
  IF outcome = "auth_error" THEN [raised |-> FALSE, val |-> EmptyData]
  ELSE IF outcome = "not_found" THEN [raised |-> TRUE, val |-> EmptyData]
  ELSE IF outcome = "error" THEN [raised |-> FALSE, val |-> EmptyData]
  ELSE [raised |-> FALSE, val |-> ReadWorksheets(workbook, 1, EmptyData)]

\* the body of fetch_all_data: [raised, val].  outcome is what the upstream
\* store does to this call: "auth_error" (get_sheets_client returns None),
\* "not_found" (SpreadsheetNotFound), "error" (any other exception of
\* client.open) or "ok".
FetchBody(outcome, workbook) ==
  IF outcome = "auth_error" THEN [raised |-> FALSE, val |-> EmptyData]
  ELSE IF outcome = "not_found" THEN [raised |-> FALSE, val |-> EmptyData]
  ELSE IF outcome = "error" THEN [raised |-> FALSE, val |-> EmptyData]
  ELSE [raised |-> FALSE, val |-> ReadWorksheets(workbook, 1, EmptyData)]

\* functools.lru_cache, after the user function returned result: the slot is
\* written unless this key was added while the function ran
LruStore(slot, result) ==
  IF slot.full THEN slot ELSE [full |-> TRUE, val |-> result]

-----------------------------------------------------------------------------
(* app.py: the handlers after fetch_all_data *)

CharOrder == <<" ", "-", ".", "/">> \o DigitChars \o <<":">> \o UpperChars \o <<"_">>
             \o LowerChars \o <<"ç", "ê">>
CharRank(c) == CHOOSE i \in 1..Len(CharOrder) : CharOrder[i] = c

\* a < b for str
RECURSIVE LessText(_, _)
LessText(a, b) ==
  IF b = <<>> THEN FALSE
  ELSE IF a = <<>> THEN TRUE
  ELSE IF Head(a) = Head(b) THEN LessText(Tail(a), Tail(b))
  ELSE CharRank(Head(a)) < CharRank(Head(b))

\* sorted(set)
RECURSIVE Sorted(_)
Sorted(S) ==
  IF S = {} THEN <<>>
  ELSE LET m == CHOOSE x \in S : \A y \in S \ {x} : LessText(x, y)
       IN <<m>> \o Sorted(S \ {m})

\* all_data.get(k1) or all_data.get(k2) or []
RowsOf(all_data, k1, k2) ==
  IF k1 \in DOMAIN all_data /\ all_data[k1] # <<>> THEN all_data[k1]
  ELSE IF k2 \in DOMAIN all_data /\ all_data[k2] # <<>> THEN all_data[k2]
  ELSE <<>>

\* sorted({r.get(col) for r in rows if r.get(col)})
Names(rows, col) ==
  Sorted({rows[i][col] : i \in {j \in 1..Len(rows) :
                                  col \in DOMAIN rows[j] /\ rows[j][col] # <<>>}})

Brands(all_data) == Names(RowsOf(all_data, MARCAS_KEY, MARCAS), "Marca")
Platforms(all_data) == Names(RowsOf(all_data, PLATAFORMAS_KEY, PLATAFORMAS), "Plataforma")

ErrorResponse(status) ==
  [status |-> status, insights |-> <<>>, brands |-> <<>>, platforms |-> <<>>]
NoResponse == ErrorResponse(0)

\* get_metadata after fetch_all_data returned or raised: fetched is [raised, val]
MetadataResponse(fetched) ==
  IF fetched.raised THEN ErrorResponse(500)
  ELSE [status |-> 200, insights |-> <<>>,
        brands |-> Brands(fetched.val), platforms |-> Platforms(fetched.val)]

\* get_insights after fetch_all_data returned or raised
InsightsResponse(fetched, payload) ==
  IF fetched.raised THEN ErrorResponse(500)
  ELSE [status |-> 200,
        insights |-> FilterPipeline(RowsOf(fetched.val, INSIGHTS_KEY, BANCO), payload).rows,
        brands |-> Brands(fetched.val), platforms |-> Platforms(fetched.val)]

\* DataRequest(filters=f, search=search, start_date=start_date, end_date=end_date)
DataRequest(f, r) ==
  [filters |-> [given |-> TRUE, f |-> f], search |-> r.search,
   start_date |-> r.start_date, end_date |-> r.end_date]

\* the rest of the handler of request r once fetch_all_data gave fetched
Respond(r, f, fetched) ==
  IF r.kind = "getMetadata" THEN MetadataResponse(fetched)
  ELSE InsightsResponse(fetched, DataRequest(f, r))

-----------------------------------------------------------------------------
(* The upstream store and the requests of the server specification *)

T_Corona == <<"C", "o", "r", "o", "n", "a">>
T_Stella == <<"S", "t", "e", "l", "l", "a">>
T_TikTok == <<"T", "i", "k", "T", "o", "k">>
T_IG == <<"I", "G">>
T_Marco == <<"M", "a", "r", "ç", "o">>
T_Fev == <<"F", "e", "v">>
T_TipoA == <<"D", "o", "r">>
T_TipoB == <<"E", "l", "o", "g", "i", "o">>
T_Txt1 == <<"p", "r", "e", "c", "o", " ", "a", "l", "t", "o">>
T_Txt2 == <<"n", "o", "v", "a", " ", "c", "a", "m", "p", "a", "n", "h", "a">>
T_Date1 == <<"1", "5", "/", "0", "3", "/", "2", "0", "2", "4">>
T_Date2 == <<"0", "1", "/", "0", "2", "/", "2", "0", "2", "4">>
T_DateBad == <<"n", "/", "a">>
T_Bud == <<"B", "u", "d">>

\* one record of the BANCO_INSIGHTS worksheet, as get_all_records gives it
InsightRecord(marca, plataforma, insight, data, mes, tipo) ==
  [c \in Range(REQUIRED_COLS) |->
     CASE c = "Marca" -> marca
       [] c = "Plataforma" -> plataforma
       [] c = "Insight" -> insight
       [] c = "Data do report/status" -> data
       [] c = "Mês" -> mes
       [] c = "Tipo de insight" -> tipo]

MarcaRecord(marca) == [c \in {"Marca"} |-> marca]
PlataformaRecord(plataforma) == [c \in {"Plataforma"} |-> plataforma]

Insight1 == InsightRecord(T_Corona, T_TikTok, T_Txt1, T_Date1, T_Marco, T_TipoA)
Insight2 == InsightRecord(T_Stella, T_IG, T_Txt2, T_Date2, T_Fev, T_TipoB)
Insight3 == InsightRecord(T_Corona, T_IG, T_Txt2, T_DateBad, T_Fev, T_TipoA)

\* the workbooks the upstream store may hold: the second one has other
\* insights and no PLATAFORMAS worksheet
WorkbookNames == {"v1", "v2"}
Workbook(name) ==
  IF name = "v1"
  THEN [w \in {BANCO, MARCAS, PLATAFORMAS} |->
          CASE w = BANCO -> <<Insight1, Insight2>>
            [] w = MARCAS -> <<MarcaRecord(T_Stella), MarcaRecord(T_Corona),
                               MarcaRecord(T_Corona), MarcaRecord(<<>>)>>
            [] w = PLATAFORMAS -> <<PlataformaRecord(T_TikTok), PlataformaRecord(T_IG)>>]
  ELSE [w \in {BANCO, MARCAS} |->
          CASE w = BANCO -> <<Insight3, Insight1>>
            [] w = MARCAS -> <<MarcaRecord(T_Corona)>>]

Outcomes == {"auth_error", "not_found", "error", "ok"}
Failures == {"auth_error", "not_found", "error"}

NoText == [some |-> FALSE, s |-> <<>>]
SomeText(t) == [some |-> TRUE, s |-> t]
Absent == [some |-> FALSE, toks |-> <<>>]
Given(toks) == [some |-> TRUE, toks |-> toks]

\* { "key" : value-tokens }
Member(key, value) == <<Str(TextOf(key)), Punct(":")>> \o value
ListOf(text) == <<Punct("["), Str(text), Punct("]")>>
EmptyList == <<Punct("["), Punct("]")>>
Object1(m) == <<Punct("{")>> \o m \o <<Punct("}")>>
Object2(m1, m2) == <<Punct("{")>> \o m1 \o <<Punct(",")>> \o m2 \o <<Punct("}")>>

\* the values of the filters query parameter
FilterTexts ==
  { Absent,
    Given(<<>>),
    Given(<<Punct("{")>>),
    Given(<<Word(T_Bud)>>),
    Given(<<Punct("{")>> \o Member("brand", ListOf(T_Corona)) \o <<Punct(","), Punct("}")>>),
    Given(<<Word(<<"n", "u", "l", "l">>)>>),
    Given(<<Punct("["), Str(TextOf("brand")), Punct("]")>>),
    Given(Object1(Member("brand", ListOf(T_Corona)))),
    Given(Object1(Member("Marca", <<Str(T_Stella)>>))),
    Given(Object2(Member("brand", ListOf(T_Corona)), Member("Marca", ListOf(T_Stella)))),
    Given(Object2(Member("Marca", <<Str(T_Stella)>>), Member("brand", ListOf(T_Corona)))),
    Given(Object2(Member("brand", EmptyList), Member("Marca", ListOf(T_Stella)))),
    Given(Object2(Member("brand", <<Word(<<"n", "u", "l", "l">>)>>),
                  Member("Marca", <<Str(T_Stella)>>))),
    Given(Object2(Member("brand", <<Str(T_Corona)>>), Member("Marca", ListOf(T_Stella)))),
    Given(Object2(Member("platform", ListOf(T_IG)), Member("Plataforma", ListOf(T_TikTok)))),
    Given(Object2(Member("insight_type", ListOf(T_TipoB)),
                  Member("Tipo de insight", <<Str(T_TipoA)>>))),
    Given(Object2(Member("month", ListOf(T_Fev)), Member("Mês", ListOf(T_Marco)))),
    Given(Object2(Member("month", EmptyList), Member("Mês", ListOf(T_Marco)))) }

MetadataRequest ==
  [kind |-> "getMetadata", filters |-> Absent, search |-> NoText,
   start_date |-> NoText, end_date |-> NoText]
NoRequest ==
  [kind |-> "none", filters |-> Absent, search |-> NoText,
   start_date |-> NoText, end_date |-> NoText]

\* the GET /api/getData requests the server specification draws from
InsightsRequests ==
  { [kind |-> "getData", filters |-> ft, search |-> NoText,
     start_date |-> NoText, end_date |-> NoText] : ft \in FilterTexts }
  \cup
  { [kind |-> "getData", filters |-> Absent, search |-> SomeText(T_Corona),
     start_date |-> SomeText(<<"2", "0", "2", "4", "-", "0", "3", "-", "0", "1">>),
     end_date |-> NoText] }

Threads == {"t1", "t2"}

NotFetched == [src |-> "none", raised |-> FALSE, val |-> EmptyData]

-----------------------------------------------------------------------------
(* The server: each worker thread serves one request at a time; the steps  *)
(* of a handler are split where functools.lru_cache takes and releases its *)
(* lock around the call of the cached function.                            *)

PipeIdle ==
  /\ pStage = "off" /\ pData = <<>> /\ pReq = DataRequest(NoFilters, NoRequest)
  /\ pIn = EmptyFrame /\ pDf = EmptyFrame

Init ==
  /\ upstream \in WorkbookNames
  /\ cache = [full |-> FALSE, val |-> EmptyData]
  /\ pc = [t \in Threads |-> "idle"]
  /\ req = [t \in Threads |-> NoRequest]
  /\ fp = [t \in Threads |-> NoFilters]
  /\ res = [t \in Threads |-> NotFetched]
  /\ resp = [t \in Threads |-> NoResponse]
  /\ PipeIdle

\* GET /api/getMetadata arrives: the handler calls fetch_all_data()
GetMetadata(t) ==
  /\ pc[t] = "idle"
  /\ req' = [req EXCEPT ![t] = MetadataRequest]
  /\ pc' = [pc EXCEPT ![t] = "lookup"]
  /\ UNCHANGED <<upstream, cache, fp, res, resp, pipeVars>>

\* GET /api/getData arrives: the handler parses the filters, builds the
\* FilterPayload and calls fetch_all_data(), or answers 400 or 500
GetInsights(t, r) ==
  /\ pc[t] = "idle"
  /\ req' = [req EXCEPT ![t] = r]
  /\ LET p == ParseRequest(r.filters) IN
     IF p.status = 200
     THEN /\ fp' = [fp EXCEPT ![t] = p.f]
          /\ pc' = [pc EXCEPT ![t] = "lookup"]
          /\ resp' = resp
     ELSE /\ resp' = [resp EXCEPT ![t] = ErrorResponse(p.status)]
          /\ pc' = [pc EXCEPT ![t] = "done"]
          /\ fp' = fp
  /\ UNCHANGED <<upstream, cache, res, pipeVars>>

\* lru_cache's wrapper, under its lock: a hit returns the cached value and the
\* handler goes on to its response; a miss releases the lock and calls the function
CacheLookup(t) ==
  /\ pc[t] = "lookup"
  /\ IF cache.full
     THEN LET hit == [src |-> "hit", raised |-> FALSE, val |-> cache.val] IN
          /\ res' = [res EXCEPT ![t] = hit]
          /\ resp' = [resp EXCEPT ![t] = Respond(req[t], fp[t], hit)]
          /\ pc' = [pc EXCEPT ![t] = "done"]
     ELSE /\ pc' = [pc EXCEPT ![t] = "fetch"]
          /\ UNCHANGED <<res, resp>>
  /\ UNCHANGED <<upstream, cache, req, fp, pipeVars>>

\* the body of fetch_all_data runs against the upstream store
FetchAllData(t, outcome) ==
  /\ pc[t] = "fetch"
  /\ LET got == FetchBody(outcome, Workbook(upstream)) IN
     res' = [res EXCEPT ![t] = [src |-> outcome, raised |-> got.raised, val |-> got.val]]
  /\ pc' = [pc EXCEPT ![t] = "store"]
  /\ UNCHANGED <<upstream, cache, req, fp, resp, pipeVars>>

\* lru_cache's wrapper, under its lock again, stores what the function
\* returned; the handler goes on to its response
CacheStore(t) ==
  /\ pc[t] = "store"
  /\ cache' = IF res[t].raised THEN cache ELSE LruStore(cache, res[t].val)
  /\ resp' = [resp EXCEPT ![t] = Respond(req[t], fp[t], res[t])]
  /\ pc' = [pc EXCEPT ![t] = "done"]
  /\ UNCHANGED <<upstream, req, fp, res, pipeVars>>

\* the response is sent and the worker thread is free again
Return(t) ==
  /\ pc[t] = "done"
  /\ pc' = [pc EXCEPT ![t] = "idle"]
  /\ req' = [req EXCEPT ![t] = NoRequest]
  /\ fp' = [fp EXCEPT ![t] = NoFilters]
  /\ res' = [res EXCEPT ![t] = NotFetched]
  /\ resp' = [resp EXCEPT ![t] = NoResponse]
  /\ UNCHANGED <<upstream, cache, pipeVars>>

\* somebody edits the spreadsheet
UpstreamChange(w) ==
  /\ w # upstream
  /\ upstream' = w
  /\ UNCHANGED <<cache, pc, req, fp, res, resp, pipeVars>>

Next ==
  \/ \E t \in Threads : GetMetadata(t)
  \/ \E t \in Threads : \E r \in InsightsRequests : GetInsights(t, r)
  \/ \E t \in Threads : CacheLookup(t)
  \/ \E t \in Threads : \E outcome \in Outcomes : FetchAllData(t, outcome)
  \/ \E t \in Threads : CacheStore(t)
  \/ \E t \in Threads : Return(t)
  \/ \E w \in WorkbookNames : UpstreamChange(w)

Spec == Init /\ [][Next]_vars

-----------------------------------------------------------------------------
(* The filter pipeline on its own: _filter_pipeline run stage by stage on   *)
(* insight records and a DataRequest drawn from bounded sets.               *)

T_Date3 == <<"3", "1", "/", "0", "2", "/", "2", "0", "2", "4">>
T_Ltv1 == <<"1", "5", "/", "0", "3", "/", "2", "0", "2", "5">>
T_TermCorona == <<"C", "O", "R", "O", "N", "A">>
T_TermDate == <<"1", "5", "/", "0", "3">>
T_TermNone == <<"n", "o", "n", "e">>
T_TermNat == <<"n", "a", "t">>
T_TermLtv == <<"0", "3", "-", "1", "5">>
T_TermDot == <<"a", ".", "t">>
T_Bound1 == <<"2", "0", "2", "4", "-", "0", "2", "-", "0", "1">>
T_Bound2 == <<"2", "0", "2", "4", "-", "0", "3", "-", "1", "5">>
T_BoundBad == <<"a", "b", "c">>

\* the most records a table of the pipeline specification has
MaxRows == 2

AllCols == Range(REQUIRED_COLS) \cup {"LTV"}

\* a record of the sheet with a LTV column
WithLtv(rec, ltv) == [c \in AllCols |-> IF c = "LTV" THEN ltv ELSE rec[c]]

RecordPool ==
  { WithLtv(Insight1, T_Ltv1),
    WithLtv(Insight2, <<>>),
    WithLtv(Insight3, T_DateBad),
    WithLtv(InsightRecord(T_Stella, T_TikTok, T_Txt1, T_Date1, <<>>, <<>>), T_Date2),
    WithLtv(InsightRecord(T_Bud, T_IG, T_Txt2, T_Date3, T_Marco, T_TipoB), <<>>) }

\* the columns the sheet may have: all of them, no LTV, no month, no report date
ColumnSets ==
  { AllCols, AllCols \ {"LTV"}, AllCols \ {"LTV", "Mês"}, AllCols \ {DATE_COL} }

Project(rec, cols) == [c \in cols |-> rec[c]]

Tables ==
  UNION { { [i \in 1..n |-> Project(recs[i], cols)] :
              recs \in [1..n -> RecordPool], cols \in ColumnSets } : n \in 0..MaxRows }

SearchTerms ==
  { NoText, SomeText(<<>>), SomeText(T_TermCorona), SomeText(T_TermDate),
    SomeText(T_TermNone), SomeText(T_TermNat), SomeText(T_TermLtv), SomeText(T_TermDot) }

DateBounds ==
  { NoText, SomeText(<<>>), SomeText(T_Bound1), SomeText(T_Bound2), SomeText(T_BoundBad) }

PayloadFilters ==
  { [given |-> FALSE, f |-> NoFilters],
    [given |-> TRUE,
     f |-> [NoFilters EXCEPT !["brand"] = [some |-> TRUE, vals |-> <<T_Corona, T_Bud>>]]] }

\* the DataRequests of the pipeline specification: every search term without
\* date bounds, and every pair of date bounds without or with one search term
PipeRequests ==
  { [filters |-> fl, search |-> st, start_date |-> NoText, end_date |-> NoText] :
      fl \in PayloadFilters, st \in SearchTerms }
  \cup
  { [filters |-> fl, search |-> st, start_date |-> sd, end_date |-> ed] :
      fl \in PayloadFilters, st \in {NoText, SomeText(T_TermCorona)},
      sd \in DateBounds, ed \in DateBounds }

ServerIdle ==
  /\ upstream = "v1"
  /\ cache = [full |-> FALSE, val |-> EmptyData]
  /\ pc = [t \in Threads |-> "idle"]
  /\ req = [t \in Threads |-> NoRequest]
  /\ fp = [t \in Threads |-> NoFilters]
  /\ res = [t \in Threads |-> NotFetched]
  /\ resp = [t \in Threads |-> NoResponse]

InitPipe ==
  /\ ServerIdle
  /\ pStage = "start"
  /\ pData \in Tables
  /\ pReq \in PipeRequests
  /\ pIn = EmptyFrame
  /\ pDf = EmptyFrame

\* if not data: return pd.DataFrame(columns=REQUIRED_COLS)
PipeEmpty ==
  /\ pStage = "start" /\ pData = <<>>
  /\ pStage' = "final"
  /\ pDf' = EmptyFrame
  /\ UNCHANGED <<pData, pReq, pIn, srvVars>>

\* DataFrame(data), _ensure_required_cols, _parse_sheet_dates
PipeNormalize ==
  /\ pStage = "start" /\ pData # <<>>
  /\ pStage' = "normalized"
  /\ pDf' = Normalize(pData)
  /\ UNCHANGED <<pData, pReq, pIn, srvVars>>

\* _apply_canonical_filters
PipeFilter ==
  /\ pStage = "normalized"
  /\ pStage' = "filtered"
  /\ pIn' = pDf
  /\ pDf' = ApplyCanonicalFilters(pDf, pReq.filters)
  /\ UNCHANGED <<pData, pReq, srvVars>>

\* _apply_search
PipeSearch ==
  /\ pStage = "filtered"
  /\ pStage' = "searched"
  /\ pIn' = pDf
  /\ pDf' = ApplySearch(pDf, pReq.search)
  /\ UNCHANGED <<pData, pReq, srvVars>>

\* _apply_date_range
PipeDateRange ==
  /\ pStage = "searched"
  /\ pStage' = "ranged"
  /\ pIn' = pDf
  /\ pDf' = ApplyDateRange(pDf, pReq.start_date, pReq.end_date)
  /\ UNCHANGED <<pData, pReq, srvVars>>

\* _finalize_df
PipeFinalize ==
  /\ pStage = "ranged"
  /\ pStage' = "final"
  /\ pIn' = pDf
  /\ pDf' = FinalizeDf(pDf)
  /\ UNCHANGED <<pData, pReq, srvVars>>

NextPipe ==
  \/ PipeEmpty
  \/ PipeNormalize
  \/ PipeFilter
  \/ PipeSearch
  \/ PipeDateRange
  \/ PipeFinalize

SpecPipe == InitPipe /\ [][NextPipe]_vars

-----------------------------------------------------------------------------
(* Properties of the server specification (Spec) *)

\* C1: single-flight population of the cache: the callers of fetch_all_data()
\* that find the slot empty start one upstream fetch between them, so at no
\* time are two threads inside the body of fetch_all_data.
C1_SingleFlight ==
  Cardinality({t \in Threads : pc[t] \in {"fetch", "store"}}) <= 1

\* C2: failures are not cached: the slot never holds the empty structure a
\* failed fetch returns, and no call is answered from the cache with it.
C2_FailuresNotCached ==
  /\ cache.full => cache.val # EmptyData
  /\ \A t \in Threads : res[t].src = "hit" => res[t].val # EmptyData

\* C3: cache stickiness: while a call of fetch_all_data() that fetched
\* successfully has completed (its thread holds the result), a call that another
\* thread starts is answered from the cache, with that same value.
C3_StickyAfterSuccess ==
  [][\A t \in Threads : \A u \in Threads \ {t} :
       (/\ pc[t] = "done" /\ res[t].src = "ok"
        /\ pc[u] = "lookup" /\ pc'[u] # "lookup")
       => (pc'[u] = "done" /\ res'[u].src = "hit" /\ res'[u].val = res[t].val)]_vars

\* the filters parameter of thread t's request is present and json.loads rejects it
BadJson(t) ==
  /\ req[t].kind = "getData"
  /\ req[t].filters.some
  /\ JsonLoads(req[t].filters.toks).err

\* C4 as claimed: GET /api/getData with a filters parameter that is present and
\* not valid JSON is answered 400 without fetch_all_data() being called.
C4_BadJsonIs400 ==
  \A t \in Threads :
    (pc[t] = "done" /\ BadJson(t)) => (resp[t].status = 400 /\ res[t].src = "none")

\* C4 as amended: GET /api/getData with a filters parameter that is present, not
\* empty and not valid JSON is answered 400 without fetch_all_data() being called.
C4_NonEmptyBadJsonIs400 ==
  \A t \in Threads :
    (pc[t] = "done" /\ BadJson(t) /\ req[t].filters.toks # <<>>)
    => (resp[t].status = 400 /\ res[t].src = "none")

\* a request with malformed, non-empty filters has been answered while the
\* cache holds data
C4_Witness ==
  \E t \in Threads :
    /\ pc[t] = "done" /\ BadJson(t) /\ Len(req[t].filters.toks) > 1
    /\ resp[t].status = 400
    /\ cache.full /\ cache.val # EmptyData

\* C5: when the upstream fetch of a GET /api/getMetadata request fails,
\* fetch_all_data() returns the empty structure without raising and the
\* response is the complete, non-error {brands: [], platforms: []}.
C5_FetchFailureGivesEmptyMetadata ==
  \A t \in Threads :
    (pc[t] = "done" /\ req[t].kind = "getMetadata" /\ res[t].src \in Failures)
    => /\ ~res[t].raised
       /\ res[t].val = EmptyData
       /\ resp[t] = [status |-> 200, insights |-> <<>>, brands |-> <<>>,
                     platforms |-> <<>>]

\* a metadata request whose fetch found no spreadsheet has been answered, while
\* another thread's request got data
C5_Witness ==
  \E t \in Threads : \E u \in Threads :
    /\ pc[t] = "done" /\ req[t].kind = "getMetadata" /\ res[t].src = "not_found"
    /\ resp[t].status = 200 /\ resp[t].brands = <<>>
    /\ pc[u] = "done" /\ res[u].src = "ok"

\* parsed holds both the canonical key and the legacy column name of a field
BothPresent(parsed, key) ==
  /\ parsed.kind = "obj"
  /\ HasKey(parsed, TextOf(key))
  /\ HasKey(parsed, TextOf(CANON_TO_COL[key]))

\* parsed without the members named by  drop  (a set of key texts)
Without(parsed, drop) ==
  LET Keep(e) == e.key \notin drop
  IN [parsed EXCEPT !.ents = SelectSeq(parsed.ents, Keep)]

\* thread t's request has been served as a request with the filters  parsed  is
HandledAs(t, parsed) ==
  LET b == BuildFilterPayload(parsed) IN
  IF b.raised THEN res[t].src = "none" /\ resp[t] = ErrorResponse(500)
  ELSE /\ res[t].src # "none"
       /\ fp[t] = b.f
       /\ resp[t] = Respond(req[t], b.f, res[t])

\* C7 as claimed: when the filters object holds both the canonical key and the
\* legacy column name of a field, the canonical value is the filter applied and
\* the legacy value is ignored: the request is served as if the legacy members
\* of those fields were not there.
C7_CanonicalWins ==
  \A t \in Threads :
    LET parsed == LoadFilters(req[t].filters)
        both == {key \in Range(CanonKeys) : BothPresent(parsed, key)}
    IN (pc[t] = "done" /\ req[t].kind = "getData" /\ ~parsed.err /\ both # {})
       => HandledAs(t, Without(parsed, {TextOf(CANON_TO_COL[key]) : key \in both}))

\* C7 as amended: the same for the fields whose canonical value is not empty
\* (not [], "" or null).
C7_NonEmptyCanonicalWins ==
  \A t \in Threads :
    LET parsed == LoadFilters(req[t].filters)
        both == {key \in Range(CanonKeys) :
                   BothPresent(parsed, key) /\ Truthy(GetKey(parsed, TextOf(key)))}
    IN (pc[t] = "done" /\ req[t].kind = "getData" /\ ~parsed.err /\ both # {})
       => HandledAs(t, Without(parsed, {TextOf(CANON_TO_COL[key]) : key \in both}))

\* a request with both keys of a field, a non-empty canonical list and a legacy
\* value that alone selects other insights, has been answered with insights
C7_Witness ==
  \E t \in Threads : \E key \in Range(CanonKeys) :
    LET parsed == LoadFilters(req[t].filters)
        legacyOnly == BuildFilterPayload(Without(parsed, {TextOf(key)}))
    IN /\ pc[t] = "done" /\ req[t].kind = "getData" /\ ~parsed.err
       /\ BothPresent(parsed, key) /\ Truthy(GetKey(parsed, TextOf(key)))
       /\ resp[t].status = 200 /\ resp[t].insights # <<>>
       /\ ~legacyOnly.raised
       /\ Respond(req[t], legacyOnly.f, res[t]).insights # <<>>
       /\ Respond(req[t], legacyOnly.f, res[t]).insights # resp[t].insights

-----------------------------------------------------------------------------
(* Properties of the pipeline specification (SpecPipe) *)

RowSet(df) == {df.rows[i] : i \in 1..Len(df.rows)}

\* a bound was supplied: the parameter is there and not empty
Supplied(bound) == bound.some /\ bound.s # <<>>
\* a bound was supplied and is a calendar date
IsDate(bound) == Supplied(bound) /\ ParseBound(bound.s).k = "ts"

\* C6 as claimed: _apply_date_range retains exactly the rows whose parsed report
\* date lies within the supplied bounds, inclusive; with a start or end bound
\* supplied the rows without a report date go, with neither all rows stay.
C6_DateRangeExact ==
  pStage = "ranged" =>
    LET start == pReq.start_date
        end == pReq.end_date
        InRange(r) ==
          (Supplied(start) \/ Supplied(end)) =>
            /\ r[DATE_COL].k = "ts"
            /\ IsDate(start) => ParseBound(start.s).n <= r[DATE_COL].n
            /\ IsDate(end) => r[DATE_COL].n <= ParseBound(end.s).n
    IN pDf = [cols |-> pIn.cols, rows |-> SelectSeq(pIn.rows, InRange)]

\* C6 as amended: the same for the bounds that are calendar dates; a bound that
\* is empty or is no date is ignored as if it had not been supplied.
C6_DateRangeExactForDates ==
  pStage = "ranged" =>
    LET start == pReq.start_date
        end == pReq.end_date
        InRange(r) ==
          (IsDate(start) \/ IsDate(end)) =>
            /\ r[DATE_COL].k = "ts"
            /\ IsDate(start) => ParseBound(start.s).n <= r[DATE_COL].n
            /\ IsDate(end) => r[DATE_COL].n <= ParseBound(end.s).n
    IN pDf = [cols |-> pIn.cols, rows |-> SelectSeq(pIn.rows, InRange)]

\* a date range with both bounds has kept a row dated on the start bound and
\* dropped a row without a report date
C6_Witness ==
  /\ pStage = "ranged"
  /\ IsDate(pReq.start_date) /\ IsDate(pReq.end_date)
  /\ \E r \in RowSet(pDf) : r[DATE_COL].n = ParseBound(pReq.start_date.s).n
  /\ \E r \in RowSet(pIn) : r[DATE_COL].k = "nat"

\* the text of a report date that parsed, as the sheet gives it (dd/mm/yyyy)
SheetDateText(c) ==
  Pad2(DayOf(c.n)) \o <<"/">> \o Pad2(MonthOf(c.n)) \o <<"/">> \o Pad4(YearOf(c.n))

\* C8: _apply_search with a search term retains a row if and only if the
\* lower-cased term is a substring of the lower-cased text of its brand,
\* platform, insight text, insight type, month or report date.  Stated here is
\* the "if": every row with such a field is retained, in particular a row whose
\* report-date text contains the term.
C8_SearchKeepsMatches ==
  (pStage = "searched" /\ pReq.search.some /\ pReq.search.s # <<>>) =>
    LET term == Lower(pReq.search.s)
        TextCols == {"Marca", "Plataforma", "Insight", "Tipo de insight", "Mês"}
        Matches(r) ==
          \/ \E c \in TextCols :
               r[c].k = "str" /\ InText(term, Lower(r[c].s))
          \/ r[DATE_COL].k = "ts" /\ InText(term, SheetDateText(r[DATE_COL]))
    IN \A r \in RowSet(pIn) : Matches(r) => r \in RowSet(pDf)

\* the date the text of an output cell (dd-mm-yyyy) stands for; 0 for None
OutputDate(c) ==
  IF c.k # "str" THEN 0
  ELSE LET p == SplitOn(c.s, "-") IN ToInt(p[3]) * 10000 + ToInt(p[2]) * 100 + ToInt(p[1])

\* C9: in the output of _filter_pipeline every row with a report date comes
\* before every row without one, and the rows with a report date are in
\* descending order of it.
C9_SortedOutput ==
  pStage = "final" =>
    \A i \in 1..Len(pDf.rows) : \A j \in (i + 1)..Len(pDf.rows) :
      LET a == pDf.rows[i][DATE_COL]
          b == pDf.rows[j][DATE_COL]
      IN /\ a.k = "none" => b.k = "none"
         /\ (a.k = "str" /\ b.k = "str") => OutputDate(a) >= OutputDate(b)

\* the pipeline has put a dated row before an undated one that came first in
\* the input
C9_Witness ==
  /\ pStage = "final" /\ Len(pDf.rows) = 2 /\ Len(pData) = 2
  /\ pDf.rows[1][DATE_COL].k = "str"
  /\ pDf.rows[2][DATE_COL].k = "none"
  /\ ParseDMY(pData[1][DATE_COL]).k = "nat"
  /\ ParseDMY(pData[2][DATE_COL]).k = "ts"

\* C10: _apply_search never retains a row on account of a null cell: a row it
\* retains has a searchable cell that is not null and matches the term.
C10_NullCellsNeverMatch ==
  (pStage = "searched" /\ pReq.search.some /\ pReq.search.s # <<>>) =>
    \A r \in RowSet(pDf) :
      \E c \in Range(SEARCHABLE_COLS) \cap pDf.cols :
        /\ r[c].k \in {"str", "ts"}
        /\ RegexSearch(Lower(pReq.search.s), Lower(AsStr(r[c])))

====
